---- MODULE Spec2Model ----
(***************************************************************************)
(* SPI weather board: the server functions that aggregate the NOAA buoys,  *)
(* the NOAA tide predictions, the Stormglass wave forecast and the sun     *)
(* times into one JSON report.  The repository holds several revisions of  *)
(* the same function; each revision is a "variant" of the model:           *)
(*   final  src/unnamed/part_001          (Promise.all, waves always fresh)*)
(*   tsv    src/unnamed/part_004          (Promise.all, GitHub-stored file)*)
(*   blobs  src/functions/weather.js      (sequential, 4 h blob cache)     *)
(*   pdf    src/unnamed/part_002          (sequential, 12 h blob cache)    *)
(*   cjs    src/functions/weather/weather.js (sequential, raw fetchBuoy)   *)
(*   edge   src/unnamed/part_003          (sequential, parseBuoy)          *)
(*                                                                         *)
(* Units.  A number n of the program is held as the integer 100*n          *)
(* (hundredths), so 23.4 is 2340.  Time is in whole hours since the local  *)
(* midnight that starts 1 January.                                         *)
(***************************************************************************)
EXTENDS Integers, Sequences, FiniteSets, TLC

VARIABLES
  variant,    \* which revision of the function is deployed
  now,        \* the wall clock (Date.now()), in hours
  blob,       \* the Netlify blob store slot "waves.json"
  phase,      \* "idle" | "running" | "responded": the invocation
  pend,       \* per task: the await it is suspended at, or "none"
  res,        \* per task: Pending, or the outcome the task settled with
  loc,        \* locals of the wave task across its awaits
  response,   \* what the handler returned
  forecast,   \* the Stormglass upstream's forecast series
  sgState,    \* the Stormglass upstream's health: how its next answer ends
  obs,        \* what the invocation did, for the properties (not read by the code)
  last,       \* shouldUpdateStormglass alone: the stored timestamp it is applied to
  verdict,    \* shouldUpdateStormglass alone: "none", or what it answered
  arg,        \* a function alone: the input it is applied to
  out,        \* a function alone: NoOut, or what it returned
  calls       \* getWavesCached called by two invocations at once: each call

vars == <<variant, now, blob, phase, pend, res, loc, response, forecast, sgState,
          obs, last, verdict, arg, out, calls>>

(***************************************************************************)
(* JavaScript values.                                                      *)
(***************************************************************************)
Null      == [tag |-> "null"]
Undefined == [tag |-> "undefined"]
NaN       == [tag |-> "NaN"]
Num(n)    == [tag |-> "num", n |-> n]
Str(s)    == [tag |-> "str", s |-> s]
\* the decimal string of a number, as toFixed(1) returns it
NumStr(n) == [tag |-> "numstr", n |-> n]

IsNum(v) == v.tag = "num"
\* x == null (loose): true of null and of undefined
IsNullish(v) == v.tag \in {"null", "undefined"}

\* An async function settles by resolving with a value or by rejecting.
Resolve(v) == [st |-> "resolved", val |-> v]
Reject     == [st |-> "rejected"]
Pending    == [st |-> "pending"]

\* floor(p/q + 1/2) for an even q > 0: Math.round(p/q)
RoundDiv(p, q) == (p + q \div 2) \div q

\* Math.round(cToF(c)*10)/10, c and the result in hundredths
cToF(c) == 10 * RoundDiv(9 * c + 16000, 50)

\* Math.round(mpsToKts(m)*10)/10 with the factor 1.94384 = 12149/6250
mpsToKts(m) == 10 * RoundDiv(m * 12149, 62500)

\* Math.round(m*3.28084*10)/10: metres to feet, 3.28084 = 82021/25000
mToFt(m) == 10 * RoundDiv(m * 82021, 250000)

dirs == <<"N","NNE","NE","ENE","E","ESE","SE","SSE",
          "S","SSW","SW","WSW","W","WNW","NW","NNW">>

\* dirs[Math.floor((d % 360) / 22.5 + 0.5) % 16], d >= 0 in hundredths of a degree
degToCard(d) == dirs[(((2 * (d % 36000) + 2250) \div 4500) % 16) + 1]

(***************************************************************************)
(* The buoy feed.  A payload is the header line's column names (<<>> when  *)
(* no line starts with "#") and the data rows, newest first; a row is its  *)
(* tokens.  Only the five columns the program reads are kept, so the fixed *)
(* columns c[5], c[6], c[7], c[13], c[14] are the positions 0..4 here.     *)
(***************************************************************************)
MM   == Str("MM")
Junk == Str("<html>")

FieldNames == {"WDIR", "WSPD", "GST", "ATMP", "WTMP"}
StdHeader  == <<"WDIR", "WSPD", "GST", "ATMP", "WTMP">>

\* header.indexOf(f): 0-based, -1 when absent
indexOf(header, f) ==
  IF \E i \in 1..Len(header) : header[i] = f
  THEN (CHOOSE i \in 1..Len(header) :
          header[i] = f /\ \A j \in 1..(i - 1) : header[j] # f) - 1
  ELSE -1

\* r[i]: undefined outside the row
At(r, i) == IF i >= 0 /\ i < Len(r) THEN r[i + 1] ELSE Undefined

\* parseFloat of a token
parseFloat(tok) == IF tok.tag = "num" THEN tok ELSE NaN

\* parseNum: parseFloat, null when NaN
parseNum(tok) == IF parseFloat(tok) = NaN THEN Null ELSE parseFloat(tok)

\* the loop "if (x == null && idx !== -1) x = parseNum(r[idx])" over the rows
RECURSIVE firstParsed(_, _, _)
firstParsed(rows, i, k) ==
  IF i = -1 \/ k > Len(rows) THEN Null
  ELSE IF parseNum(At(rows[k], i)) # Null THEN parseNum(At(rows[k], i))
  ELSE firstParsed(rows, i, k + 1)

FallbackObs ==
  [airF |-> Null, waterF |-> Null, windKts |-> Null, gustKts |-> Null,
   windDirCardinal |-> Str("--")]

\* a value that is null stays null, a number is converted and rounded
convF(v)   == IF IsNullish(v) THEN Null ELSE Num(cToF(v.n))
convKts(v) == IF IsNullish(v) THEN Null ELSE Num(mpsToKts(v.n))

\* fetchBuoy of the final and tsv revisions: header lookup, parseNum per field
fetchBuoy(resp) ==
  IF resp.kind = "neterr" \/ ~resp.ok THEN Reject
  ELSE IF resp.body.header = <<>> THEN Reject
  ELSE LET h    == resp.body.header
           rows == resp.body.rows
           air   == firstParsed(rows, indexOf(h, "ATMP"), 1)
           water == firstParsed(rows, indexOf(h, "WTMP"), 1)
           wspd  == firstParsed(rows, indexOf(h, "WSPD"), 1)
           gust  == firstParsed(rows, indexOf(h, "GST"), 1)
           wdir  == firstParsed(rows, indexOf(h, "WDIR"), 1)
       IN Resolve([airF    |-> convF(air),
                   waterF  |-> convF(water),
                   windKts |-> convKts(wspd),
                   gustKts |-> convKts(gust),
                   windDirCardinal |->
                     IF wdir # Null THEN Str(degToCard(wdir.n)) ELSE Str("--")])

safeBuoy(resp) ==
  IF fetchBuoy(resp) = Reject THEN Resolve(FallbackObs) ELSE fetchBuoy(resp)

\* the fixed columns c[5], c[6], c[7], c[13], c[14]
FixedCol == [WDIR |-> 0, WSPD |-> 1, GST |-> 2, ATMP |-> 3, WTMP |-> 4]

\* "fallback": the first row whose value is not NaN, else null
RECURSIVE fallback(_, _, _)
fallback(rows, f, k) ==
  IF k > Len(rows) THEN Null
  ELSE IF parseFloat(At(rows[k], FixedCol[f])) # NaN
       THEN parseFloat(At(rows[k], FixedCol[f]))
  ELSE fallback(rows, f, k + 1)

\* fetchBuoy of the blobs and pdf revisions: fixed columns
fetchBuoyFixed(resp) ==
  IF resp.kind = "neterr" \/ ~resp.ok THEN Reject
  ELSE IF resp.body.rows = <<>> THEN Reject
  ELSE LET rows == resp.body.rows
           wdir == fallback(rows, "WDIR", 1)
       IN Resolve([airF    |-> convF(fallback(rows, "ATMP", 1)),
                   waterF  |-> convF(fallback(rows, "WTMP", 1)),
                   windKts |-> convKts(fallback(rows, "WSPD", 1)),
                   gustKts |-> convKts(fallback(rows, "GST", 1)),
                   windDirCardinal |->
                     IF IsNullish(wdir) THEN Str("--") ELSE Str(degToCard(wdir.n))])

safeFetchBuoy(resp) ==
  IF fetchBuoyFixed(resp) = Reject THEN Resolve(FallbackObs) ELSE fetchBuoyFixed(resp)

\* degToCardinal of functions/weather.js: "--" when there is no direction
degToCardinal(v) == IF IsNullish(v) THEN Str("--") ELSE Str(degToCard(v.n))

\* degToCardinal of util.js: null when there is no direction
degToCardinalUtil(v) == IF IsNullish(v) \/ v = NaN THEN Null ELSE Str(degToCard(v.n))

\* fetchBuoy of js/buoys.js: fixed columns, no test for rows, util's
\* degToCardinal
fetchBuoyUtil(resp) ==
  IF resp.kind = "neterr" \/ ~resp.ok THEN Reject
  ELSE LET rows == resp.body.rows
       IN Resolve([airF    |-> convF(fallback(rows, "ATMP", 1)),
                   waterF  |-> convF(fallback(rows, "WTMP", 1)),
                   windKts |-> convKts(fallback(rows, "WSPD", 1)),
                   gustKts |-> convKts(fallback(rows, "GST", 1)),
                   windDirCardinal |-> degToCardinalUtil(fallback(rows, "WDIR", 1))])

\* "newest" of the cjs revision: get() gives null outside the row
RECURSIVE newest(_, _, _)
newest(rows, i, k) ==
  IF k > Len(rows) THEN Null
  ELSE IF i >= 0 /\ i < Len(rows[k]) /\ parseFloat(At(rows[k], i)) # NaN
       THEN parseFloat(At(rows[k], i))
  ELSE newest(rows, i, k + 1)

\* fetchBuoy of the cjs revision: no resp.ok test, no test of headerLine
fetchBuoyCjs(resp) ==
  IF resp.kind = "neterr" THEN Reject
  ELSE IF ~("WDIR" \in {resp.body.header[i] : i \in 1..Len(resp.body.header)}) THEN Reject
  ELSE LET h    == resp.body.header
           rows == resp.body.rows
           wdir == newest(rows, indexOf(h, "WDIR"), 1)
       IN Resolve([airF    |-> convF(newest(rows, indexOf(h, "ATMP"), 1)),
                   waterF  |-> convF(newest(rows, indexOf(h, "WTMP"), 1)),
                   windKts |-> convKts(newest(rows, indexOf(h, "WSPD"), 1)),
                   gustKts |-> convKts(newest(rows, indexOf(h, "GST"), 1)),
                   windDirCardinal |->
                     IF IsNullish(wdir) THEN Str("--") ELSE Str(degToCard(wdir.n))])

\* parseFloat(cToF(x).toFixed(1)) of parseBuoy: NaN when the token is no number
edgeTemp(tok) ==
  IF tok = MM THEN Null
  ELSE IF parseFloat(tok) = NaN THEN NaN ELSE Num(cToF(tok.n))

\* parseFloat((parseFloat(x)*1.94384).toFixed(1)) of parseBuoy: 0 when "MM"
edgeSpeed(tok) ==
  IF tok = MM THEN Num(0)
  ELSE IF parseFloat(tok) = NaN THEN NaN ELSE Num(mpsToKts(tok.n))

\* a token as the string it is in the feed
Raw(tok) == IF tok.tag = "num" THEN NumStr(tok.n) ELSE tok

\* parseBuoy of the edge revision: the first row only, its own try/catch,
\* the raw WDIR token as windDirCardinal, undefined when there is no row
parseBuoy(resp) ==
  IF resp.kind = "neterr" \/ resp.body.header = <<>>
  THEN Resolve([airF |-> Null, waterF |-> Null, windKts |-> Num(0),
                gustKts |-> Num(0), windDirCardinal |-> Str("--")])
  ELSE IF resp.body.rows = <<>> THEN Resolve(Undefined)
  ELSE LET h   == resp.body.header
           col == resp.body.rows[1]
           wdir == At(col, indexOf(h, "WDIR"))
       IN Resolve([airF    |-> edgeTemp(At(col, indexOf(h, "ATMP"))),
                   waterF  |-> edgeTemp(At(col, indexOf(h, "WTMP"))),
                   windKts |-> edgeSpeed(At(col, indexOf(h, "WSPD"))),
                   gustKts |-> edgeSpeed(At(col, indexOf(h, "GST"))),
                   windDirCardinal |-> IF wdir # MM THEN Raw(wdir) ELSE Str("--")])

(***************************************************************************)
(* The clock: Date's local fields of an hour count (a year that is no leap *)
(* year, no daylight-saving change).                                       *)
(***************************************************************************)
MonthDays == <<31, 28, 31, 30, 31, 30, 31, 31, 30, 31, 30, 31>>

RECURSIVE dayOfMonth(_, _)
dayOfMonth(d, m) ==
  IF d < MonthDays[m] THEN d + 1 ELSE dayOfMonth(d - MonthDays[m], (m % 12) + 1)

\* Date.getDate() and Date.getHours()
getDate(t)  == dayOfMonth(t \div 24, 1)
getHours(t) == t % 24

\* "HH:MM" of a clock time, held as the minute of the day
HM(m) == [tag |-> "hm", m |-> m]

\* toHM(toLocal(new Date(t))) for a GMT minute of the day: America/Chicago,
\* six hours behind GMT
toLocalHM(m) == HM((m + 1440 - 360) % 1440)

\* n.toFixed(1), rounding half away from zero
toFixed1(n) == IF n >= 0 THEN 10 * RoundDiv(n, 10) ELSE -10 * RoundDiv(-n, 10)

(***************************************************************************)
(* Tides.  A tide answer: kind "neterr" (fetch rejects) or "http" with ok, *)
(* json (the body parses as JSON), has (it holds a predictions list) and   *)
(* the predictions [t: minute of the day, v, type] in chronological order. *)
(***************************************************************************)
NoTides == [high |-> Null, low |-> Null]

RECURSIVE lastOfType(_, _, _, _)
lastOfType(ps, ty, k, acc) ==
  IF k > Len(ps) THEN acc
  ELSE lastOfType(ps, ty, k + 1,
                  IF ps[k].type = ty THEN [time |-> HM(ps[k].t), v |-> Num(ps[k].v)]
                  ELSE acc)

\* predictions.find(p => p.type === ty): undefined when none
find(ps, ty) ==
  IF \E k \in 1..Len(ps) : ps[k].type = ty
  THEN ps[CHOOSE k \in 1..Len(ps) :
            ps[k].type = ty /\ \A j \in 1..(k - 1) : ps[j].type # ty]
  ELSE Undefined

\* getNoaaTides of the final revision: every H overwrites high, every L low
getNoaaTides(resp) ==
  IF resp.kind = "neterr" THEN Reject
  ELSE IF ~resp.ok THEN Resolve(NoTides)
  ELSE IF ~resp.json THEN Reject
  ELSE IF ~resp.has THEN Resolve(NoTides)
  ELSE Resolve([high |-> lastOfType(resp.predictions, "H", 1, Null),
                low  |-> lastOfType(resp.predictions, "L", 1, Null)])

\* the upstream's own prediction object, v a decimal string
rawPrediction(p) ==
  IF p = Undefined THEN Null ELSE [t |-> HM(p.t), v |-> NumStr(p.v), type |-> p.type]

\* fetchTides of the blobs revision
fetchTides(resp) ==
  IF resp.kind = "neterr" \/ ~resp.json \/ ~resp.has THEN Reject
  ELSE Resolve([low  |-> rawPrediction(find(resp.predictions, "L")),
                high |-> rawPrediction(find(resp.predictions, "H"))])

safeFetchTides(resp) ==
  IF fetchTides(resp) = Reject THEN Resolve([low |-> Null, high |-> Null])
  ELSE fetchTides(resp)

localPrediction(p) ==
  IF p = Undefined THEN Null ELSE [t |-> toLocalHM(p.t), v |-> NumStr(toFixed1(p.v))]

\* the tides block of the cjs handler: its own try/catch
tidesCjs(resp) ==
  IF resp.kind = "neterr" \/ ~resp.json \/ ~resp.has THEN Resolve(NoTides)
  ELSE Resolve([high |-> localPrediction(find(resp.predictions, "H")),
                low  |-> localPrediction(find(resp.predictions, "L"))])

\* the tides block of the edge function: its own try/catch
tidesEdge(resp) ==
  IF resp.kind = "neterr" \/ ~resp.json \/ ~resp.has THEN Resolve(NoTides)
  ELSE Resolve([high |-> localPrediction(find(resp.predictions, "H")),
                low  |-> localPrediction(find(resp.predictions, "L"))])

(***************************************************************************)
(* Sun.  A GitHub answer (githubGet): kind "noenv" (the environment        *)
(* variables are not set), "neterr", or "http" with status, json and the   *)
(* decoded file content.                                                   *)
(***************************************************************************)
NoSun == [sunrise |-> Null, sunset |-> Null]

\* githubGet of the final revision: null unless the answer is ok
githubGetFinal(resp) ==
  IF resp.kind = "noenv" THEN Resolve(Null)
  ELSE IF resp.kind = "neterr" THEN Reject
  ELSE IF resp.status # 200 THEN Resolve(Null)
  ELSE IF ~resp.json THEN Reject
  ELSE Resolve([content |-> resp.content])

\* githubGet of the tsv revision: null on 404, throws on any other failure
githubGet(resp) ==
  IF resp.kind = "noenv" THEN Resolve(Null)
  ELSE IF resp.kind = "neterr" THEN Reject
  ELSE IF resp.status = 404 THEN Resolve(Null)
  ELSE IF resp.status # 200 THEN Reject
  ELSE IF ~resp.json THEN Reject
  ELSE Resolve([content |-> resp.content])

\* getSunData of the final revision; a file content is parses (it is JSON)
\* and the value it holds
getSunData(resp) ==
  IF githubGetFinal(resp) = Reject THEN Reject
  ELSE IF githubGetFinal(resp).val = Null THEN Resolve(NoSun)
  ELSE IF ~resp.content.parses THEN Resolve(NoSun)
  ELSE Resolve(resp.content.value)

\* the sun block of the cjs handler and of the edge function (sunrise-sunset.org,
\* times in GMT), in its own try/catch
sunApi(resp) ==
  IF resp.kind = "neterr" \/ ~resp.json \/ ~resp.has THEN Resolve(NoSun)
  ELSE Resolve([sunrise |-> toLocalHM(resp.sunrise), sunset |-> toLocalHM(resp.sunset)])

\* computeSunriseSunset(SUN_LAT, SUN_LON, new Date()) at the fixed site: at
\* latitude 26.07 cosH lies within [-1, 1] on every date, so both are times
sunAtSite == [sunrise |-> Str("07:03 AM"), sunset |-> Str("05:47 PM")]

\* chooseTideTSV
chooseTideTSV(rec, kind, t) ==
  LET arr == rec[kind]
  IN IF Len(arr) = 0 THEN Null
     ELSE IF Len(arr) = 1 THEN arr[1]
     ELSE IF getHours(t) >= 12 THEN arr[2] ELSE arr[1]

\* mkISO: the instant of a local clock time of today
mkISO(e, t) == [tag |-> "iso", m |-> 1440 * (t \div 24) + e.time]

\* getUsharborsToday of the tsv revision; the file content holds today's
\* parsed record (has) or none
getUsharborsToday(resp, t) ==
  IF githubGet(resp) = Reject THEN Reject
  ELSE IF githubGet(resp).val = Null
  THEN Resolve([outdated |-> TRUE, tides |-> NoTides, sun |-> NoSun])
  ELSE IF ~resp.content.has
  THEN Resolve([outdated |-> FALSE, tides |-> NoTides, sun |-> NoSun])
  ELSE LET rec  == resp.content.rec
           high == chooseTideTSV(rec, "high", t)
           low  == chooseTideTSV(rec, "low", t)
       IN Resolve([outdated |-> FALSE,
                   tides |-> [high |-> IF high # Null
                                       THEN [t |-> mkISO(high, t), v |-> Num(high.ft)]
                                       ELSE Null,
                              low  |-> IF low # Null
                                       THEN [t |-> mkISO(low, t), v |-> Num(low.ft)]
                                       ELSE Null],
                   sun |-> [sunrise |-> rec.sunrise, sunset |-> rec.sunset]])

UshFallback == [tides |-> [high |-> <<>>, low |-> <<>>], sun |-> NoSun]

\* fetchUsharborsTidesSun of the pdf revision: the matches of today's line
fetchUsharborsTidesSun(resp) ==
  IF resp.kind = "neterr" \/ ~resp.ok \/ ~resp.parses THEN Reject
  ELSE Resolve([tides |-> [high |-> resp.high, low |-> resp.low],
                sun   |-> [sunrise |-> resp.sunrise, sunset |-> resp.sunset]])

safeFetchUsharbors(resp) ==
  IF fetchUsharborsTidesSun(resp) = Reject THEN Resolve(UshFallback)
  ELSE fetchUsharborsTidesSun(resp)

(***************************************************************************)
(* Waves.  A forecast series is the upstream's "hours": [time, sg] with sg *)
(* the height in metres or undefined.  A Stormglass answer is decided by   *)
(* the upstream's health: "ok", "neterr" (fetch rejects), "http" (status   *)
(* not ok) or "nohours" (ok, JSON, no hours list).                         *)
(***************************************************************************)
abs(x) == IF x < 0 THEN -x ELSE x

\* json.hours.map(...): metres to feet, one decimal, null when sg is no number
toWaves(hours) ==
  [i \in 1..Len(hours) |->
     [time   |-> hours[i].time,
      waveFt |-> IF IsNum(hours[i].sg) THEN Num(mToFt(hours[i].sg.n)) ELSE Null]]

\* fetchStormglassFresh of the final and tsv revisions, called at time t
fetchStormglassFresh(state, hours, t) ==
  IF state # "ok" THEN Reject
  ELSE Resolve([timestamp |-> t, waves |-> toWaves(hours)])

\* the loop of pickCurrentWave: best is the index kept (0: none), diff the
\* distance kept (-1: Infinity)
RECURSIVE pickLoop(_, _, _, _, _)
pickLoop(waves, k, best, diff, t) ==
  IF k > Len(waves) THEN best
  ELSE IF waves[k].waveFt = Null THEN pickLoop(waves, k + 1, best, diff, t)
  ELSE IF diff = -1 \/ abs(waves[k].time - t) < diff
       THEN pickLoop(waves, k + 1, k, abs(waves[k].time - t), t)
  ELSE pickLoop(waves, k + 1, best, diff, t)

\* pickCurrentWave(f) at time t
pickCurrentWave(f, t) ==
  IF f = Null \/ Len(f.waves) = 0 THEN [waveFt |-> Null]
  ELSE IF pickLoop(f.waves, 1, 0, -1, t) = 0 THEN [waveFt |-> Null]
  ELSE [waveFt |-> f.waves[pickLoop(f.waves, 1, 0, -1, t)].waveFt]

MsPerHour == 60 * 60 * 1000
BestInit  == 999999999

\* the loop of fetchStormglass: closest starts at hours[0], best at 999999999 ms
RECURSIVE closestLoop(_, _, _, _, _)
closestLoop(hours, k, closest, best, t) ==
  IF k > Len(hours) THEN closest
  ELSE IF abs(hours[k].time - t) * MsPerHour < best
       THEN closestLoop(hours, k + 1, k, abs(hours[k].time - t) * MsPerHour, t)
  ELSE closestLoop(hours, k + 1, closest, best, t)

NoWave == [waveM |-> Null, waveFt |-> Null]

\* fetchStormglass of the blobs and pdf revisions, called at time t: the
\* selected height, never a throw
fetchStormglass(state, hours, t) ==
  IF state # "ok" \/ Len(hours) = 0 THEN NoWave
  ELSE LET m == hours[closestLoop(hours, 1, 1, BestInit, t)].sg
       IN [waveM  |-> IF IsNullish(m) THEN Null ELSE m,
           waveFt |-> IF IsNullish(m) THEN Null ELSE Num(mToFt(m.n))]

\* the cache lifetime of getWavesCached, in hours: 4 * 60 * 60 * 1000 ms in the
\* blobs revision, 12 * 60 * 60 * 1000 ms in the pdf revision
TTL(v) == IF v = "blobs" THEN 4 ELSE 12

\* store.get("waves.json") gives null when nothing is stored
NoEntry == Null

\* a store that merges: an entry already stored keeps its waves
setJSONMerged(stored, value) ==
  IF stored = NoEntry THEN value
  ELSE [timestamp |-> value.timestamp, waves |-> stored.waves]

\* store.setJSON("waves.json", value) answering well: the slot holds value
\* in place of whatever was stored
setJSON(stored, value) == value

\* an entry that never ages
isFreshWhateverAge(cached, v, t) == cached # NoEntry

\* the test of getWavesCached at time t: cached && Date.now() - cached.timestamp < TTL
isFresh(cached, v, t) == cached # NoEntry /\ t - cached.timestamp < TTL(v)

\* shouldUpdateStormglass(lastTimestamp) called at time t; a stored file with
\* no timestamp has lastTimestamp undefined
shouldUpdateStormglass(lastTimestamp, t) ==
  IF lastTimestamp = Undefined THEN TRUE
  ELSE LET crossedMidnight == getDate(t) # getDate(lastTimestamp.n)
           crossedNoon     == getHours(lastTimestamp.n) < 12 /\ getHours(t) >= 12
       IN crossedMidnight \/ crossedNoon

\* the waves block of the cjs handler and of the edge function, at time t: the
\* last point of the GitHub file that is not after now, in its own try/catch
RECURSIVE lastNotAfter(_, _, _, _)
lastNotAfter(arr, k, best, t) ==
  IF k > Len(arr) THEN best
  ELSE IF arr[k].time <= t THEN lastNotAfter(arr, k + 1, k, t)
  ELSE best

wavesFromGithub(resp, t) ==
  IF resp.kind = "neterr" \/ ~resp.json \/ ~resp.has THEN [waveFt |-> Null]
  ELSE IF lastNotAfter(resp.waves, 1, 0, t) = 0 THEN [waveFt |-> Null]
  ELSE LET w == resp.waves[lastNotAfter(resp.waves, 1, 0, t)].waveFt
       IN [waveFt |-> IF IsNum(w) THEN NumStr(toFixed1(w.n)) ELSE Str("NaN")]

(***************************************************************************)
(* The handlers.  JSON.stringify drops a property whose value is undefined *)
(* and writes NaN as null; the report is the body as the client parses it. *)
(***************************************************************************)
Bool(b) == [tag |-> "bool", b |-> b]

stringifyObs(v) ==
  IF "airF" \in DOMAIN v
  THEN [f \in {g \in DOMAIN v : v[g] # Undefined} |-> IF v[f] = NaN THEN Null ELSE v[f]]
  ELSE v

stringify(o) == [k \in {j \in DOMAIN o : o[j] # Undefined} |-> stringifyObs(o[k])]

JsonHeaders == "application/json"
NoHeaders   == "none"

\* the tasks each handler awaits, in the order the code starts them
finalTasks == <<"gulf", "bay", "waves", "tides", "sun">>
tsvTasks   == <<"gulf", "bay", "waves", "ush">>
blobsTasks == <<"waves", "gulf", "bay", "tides">>
pdfTasks   == <<"waves", "gulf", "bay", "ush">>
cjsTasks   == <<"gulf", "bay", "tides", "sun", "waves">>
edgeTasks  == <<"gulf", "bay", "tides", "sun", "waves">>

Variants == {"final", "tsv", "blobs", "pdf", "cjs", "edge"}
Tasks    == {"gulf", "bay", "waves", "tides", "sun", "ush"}

Order(v) ==
  CASE v = "final" -> finalTasks [] v = "tsv" -> tsvTasks
    [] v = "blobs" -> blobsTasks [] v = "pdf" -> pdfTasks
    [] v = "cjs"   -> cjsTasks   [] v = "edge" -> edgeTasks

TaskSet(v) == {Order(v)[i] : i \in 1..Len(Order(v))}

\* Promise.all over the tasks (final, tsv) or one await after the other
Concurrent(v) == v \in {"final", "tsv"}

\* the first await of a task
FirstOp(v, t) ==
  IF t = "waves" /\ v \in {"blobs", "pdf"} THEN "get"
  ELSE IF t = "waves" /\ v = "tsv" THEN "github"
  ELSE IF t = "sun" /\ v = "final" THEN "github"
  ELSE IF t = "ush" /\ v = "tsv" THEN "github"
  ELSE "fetch"

\* the success path of each handler, with the tasks' values r, at time t
okFinal(r, t) ==
  [statusCode |-> 200, contentType |-> JsonHeaders,
   body |-> stringify([gulf |-> r["gulf"].val, bay |-> r["bay"].val,
                       waves |-> pickCurrentWave(r["waves"].val, t),
                       tides |-> r["tides"].val, sun |-> r["sun"].val,
                       usharborsOutdated |-> Bool(FALSE)])]

okTsv(r, t) ==
  [statusCode |-> 200, contentType |-> JsonHeaders,
   body |-> stringify([gulf |-> r["gulf"].val, bay |-> r["bay"].val,
                       waves |-> pickCurrentWave(r["waves"].val, t),
                       tides |-> r["ush"].val.tides, sun |-> r["ush"].val.sun,
                       usharborsOutdated |-> Bool(r["ush"].val.outdated)])]

okBlobs(r) ==
  [statusCode |-> 200, contentType |-> JsonHeaders,
   body |-> stringify([gulf |-> r["gulf"].val, bay |-> r["bay"].val,
                       waves |-> r["waves"].val, sun |-> sunAtSite,
                       tides |-> r["tides"].val])]

okPdf(r) ==
  [statusCode |-> 200, contentType |-> JsonHeaders,
   body |-> stringify([gulf |-> r["gulf"].val, bay |-> r["bay"].val,
                       waves |-> r["waves"].val,
                       tides |-> r["ush"].val.tides, sun |-> r["ush"].val.sun])]

okCjs(r) ==
  [statusCode |-> 200, contentType |-> JsonHeaders,
   body |-> stringify([gulf |-> r["gulf"].val, bay |-> r["bay"].val,
                       waves |-> r["waves"].val, tides |-> r["tides"].val,
                       sun |-> r["sun"].val, usharborsOutdated |-> Bool(FALSE)])]

okEdge(r) ==
  [statusCode |-> 200, contentType |-> JsonHeaders,
   body |-> stringify([gulf |-> r["gulf"].val, bay |-> r["bay"].val,
                       waves |-> r["waves"].val, tides |-> r["tides"].val,
                       sun |-> r["sun"].val, usharborsOutdated |-> Bool(FALSE)])]

okResponse(v, r, t) ==
  CASE v = "final" -> okFinal(r, t) [] v = "tsv" -> okTsv(r, t)
    [] v = "blobs" -> okBlobs(r)    [] v = "pdf" -> okPdf(r)
    [] v = "cjs"   -> okCjs(r)      [] v = "edge" -> okEdge(r)

\* the catch block of each handler
catchFinal ==
  [statusCode |-> 200, contentType |-> JsonHeaders,
   body |-> [error |-> Str("Error"), gulf |-> Null, bay |-> Null,
             waves |-> [waveFt |-> Null], tides |-> NoTides, sun |-> NoSun,
             usharborsOutdated |-> Bool(TRUE)]]

catchTsv ==
  [statusCode |-> 200, contentType |-> JsonHeaders,
   body |-> [error |-> Str("Error"), gulf |-> Null, bay |-> Null,
             waves |-> [waveFt |-> Null], tides |-> NoTides, sun |-> NoSun,
             usharborsOutdated |-> Bool(TRUE)]]

catchBlobs ==
  [statusCode |-> 500, contentType |-> NoHeaders,
   body |-> [error |-> Str("Error"), gulf |-> Null, bay |-> Null,
             waves |-> [waveFt |-> Null, waveM |-> Null], sun |-> NoSun,
             tides |-> [low |-> Null, high |-> Null]]]

catchPdf ==
  [statusCode |-> 500, contentType |-> NoHeaders,
   body |-> [error |-> Str("Error"), gulf |-> Null, bay |-> Null,
             waves |-> [waveFt |-> Null, waveM |-> Null],
             tides |-> [low |-> <<>>, high |-> <<>>], sun |-> NoSun]]

catchCjs  == [statusCode |-> 500, contentType |-> NoHeaders,
              body |-> [error |-> Str("Error")]]

catchEdge == [statusCode |-> 500, contentType |-> NoHeaders,
              body |-> [error |-> Str("Error")]]

catchResponse(v) ==
  CASE v = "final" -> catchFinal [] v = "tsv" -> catchTsv
    [] v = "blobs" -> catchBlobs [] v = "pdf" -> catchPdf
    [] v = "cjs"   -> catchCjs   [] v = "edge" -> catchEdge

(***************************************************************************)
(* The upstreams' answers the handlers are run against.                    *)
(***************************************************************************)
\* the clock runs to MaxNow in steps of Step hours
MaxNow == 24
Step   == 2

\* buoy rows in the standard column order WDIR WSPD GST ATMP WTMP
RowNew == <<Num(12000), Num(520), Num(710), Num(2340), Num(2210)>>
RowGap == <<Num(12000), MM, Num(710), MM, Num(2210)>>
RowOld == <<Num(9000), Num(410), Num(600), Num(2280), Num(2200)>>

GoodBuoy ==
  [kind |-> "http", ok |-> TRUE, body |-> [header |-> StdHeader, rows |-> <<RowNew, RowOld>>]]

BuoyResponses ==
  {[kind |-> "neterr"],
   [kind |-> "http", ok |-> FALSE, body |-> [header |-> <<>>, rows |-> <<<<Junk>>>>]],
   GoodBuoy,
   [kind |-> "http", ok |-> TRUE,  body |-> [header |-> StdHeader, rows |-> <<RowGap, RowOld>>]],
   [kind |-> "http", ok |-> TRUE,  body |-> [header |-> <<>>, rows |-> <<RowNew>>]],
   [kind |-> "http", ok |-> TRUE,  body |-> [header |-> StdHeader, rows |-> <<>>]]}

TidePredictions ==
  <<[t |-> 130,  v |-> 45,  type |-> "L"], [t |-> 500,  v |-> 152, type |-> "H"],
    [t |-> 890,  v |-> 38,  type |-> "L"], [t |-> 1250, v |-> 141, type |-> "H"]>>

GoodTides ==
  [kind |-> "http", ok |-> TRUE, json |-> TRUE, has |-> TRUE, predictions |-> TidePredictions]

TideResponses ==
  {[kind |-> "neterr"],
   [kind |-> "http", ok |-> FALSE, json |-> TRUE,  has |-> FALSE, predictions |-> <<>>],
   [kind |-> "http", ok |-> TRUE,  json |-> FALSE, has |-> FALSE, predictions |-> <<>>],
   [kind |-> "http", ok |-> TRUE,  json |-> TRUE,  has |-> FALSE, predictions |-> <<>>],
   GoodTides}

SunFile == [sunrise |-> Str("07:03"), sunset |-> Str("17:47")]

GoodSunFile ==
  [kind |-> "http", status |-> 200, json |-> TRUE,
   content |-> [parses |-> TRUE, value |-> SunFile]]

GithubSunResponses ==
  {[kind |-> "noenv"], [kind |-> "neterr"],
   [kind |-> "http", status |-> 404, json |-> TRUE, content |-> [parses |-> FALSE]],
   [kind |-> "http", status |-> 200, json |-> TRUE, content |-> [parses |-> FALSE]],
   GoodSunFile}

GoodSunApi == [kind |-> "http", json |-> TRUE, has |-> TRUE, sunrise |-> 783, sunset |-> 1427]

SunApiResponses ==
  {[kind |-> "neterr"],
   [kind |-> "http", json |-> TRUE, has |-> FALSE],
   GoodSunApi}

UshRecord ==
  [high |-> <<[time |-> 104, ft |-> 210], [time |-> 820, ft |-> 190]>>,
   low  |-> <<[time |-> 662, ft |-> 30]>>,
   sunrise |-> Str("7:03"), sunset |-> Str("5:47")]

GoodUsh ==
  [kind |-> "http", status |-> 200, json |-> TRUE,
   content |-> [has |-> TRUE, rec |-> UshRecord]]

GithubUshResponses ==
  {[kind |-> "noenv"], [kind |-> "neterr"],
   [kind |-> "http", status |-> 404, json |-> TRUE, content |-> [has |-> FALSE]],
   [kind |-> "http", status |-> 500, json |-> TRUE, content |-> [has |-> FALSE]],
   [kind |-> "http", status |-> 200, json |-> TRUE, content |-> [has |-> FALSE]],
   GoodUsh}

GoodPdf ==
  [kind |-> "http", ok |-> TRUE,  parses |-> TRUE,
   high |-> <<Str("2.1 ft 01:44 AM")>>, low |-> <<Str("0.3 ft 11:02 AM")>>,
   sunrise |-> Str("07:03 AM"), sunset |-> Str("05:47 PM")]

PdfResponses ==
  {[kind |-> "neterr"],
   [kind |-> "http", ok |-> FALSE, parses |-> FALSE],
   [kind |-> "http", ok |-> TRUE,  parses |-> FALSE],
   GoodPdf}

\* the forecast: one point an hour, a height that differs from hour to hour
hourPoint(h) == [time |-> h, sg |-> Num(50 + 10 * h)]

Forecasts == {[i \in 1..(MaxNow + Step + 1) |-> hourPoint(i - 1)]}

SgStates == {"ok", "neterr", "http", "nohours"}

\* what githubGet("stormglass.json") can answer at time t: the stored file was
\* written at some earlier hour ts from the forecast
GithubSgResponses(t, hours) ==
  {[kind |-> "noenv"], [kind |-> "neterr"],
   [kind |-> "http", status |-> 404, json |-> TRUE, content |-> [parses |-> FALSE]],
   [kind |-> "http", status |-> 500, json |-> TRUE, content |-> [parses |-> FALSE]],
   [kind |-> "http", status |-> 200, json |-> TRUE, content |-> [parses |-> FALSE]]}
  \cup {[kind |-> "http", status |-> 200, json |-> TRUE,
         content |-> [parses |-> TRUE,
                      value |-> [timestamp |-> Num(ts), waves |-> toWaves(hours)]]]
          : ts \in 0..t}
  \cup {[kind |-> "http", status |-> 200, json |-> TRUE,
         content |-> [parses |-> TRUE,
                      value |-> [timestamp |-> Undefined, waves |-> toWaves(hours)]]]}

\* what the raw stormglass.json read by the cjs and edge revisions can answer
RawSgResponses(hours) ==
  {[kind |-> "neterr"],
   [kind |-> "http", json |-> FALSE, has |-> FALSE],
   [kind |-> "http", json |-> TRUE,  has |-> FALSE],
   [kind |-> "http", json |-> TRUE,  has |-> TRUE, waves |-> toWaves(hours)]}

NoPend == [t \in Tasks |-> "none"]
NoRes  == [t \in Tasks |-> Pending]
NoLoc  == [waves |-> NoWave, timestamp |-> 0]
NoResponse == [statusCode |-> 0, contentType |-> NoHeaders, body |-> [none |-> Null]]
\* obs: callAt, when the wave source was called; fetched, the invocation issued
\* a Stormglass fetch; failed, that fetch failed; prevFailed, the Stormglass
\* fetch of the invocation before failed; refreshed, a call has fetched a
\* forecast from a healthy Stormglass and returned it, and the clock has not
\* moved since
NoArg  == [fn |-> "none"]
NoOut  == [fn |-> "none"]
\* a call of getWavesCached: pc, the await it is at ("idle" before the call,
\* "done" after it); cached, what store.get answered it (undefined before
\* it has); waves and timestamp,
\* its locals; ret, what it settled with; wrote, its store.setJSON succeeded
Callers == {1, 2}
NoCall  == [pc |-> "idle", cached |-> Undefined, waves |-> [waveM |-> Null, waveFt |-> Null],
            timestamp |-> 0, ret |-> Pending, wrote |-> FALSE]
NoCalls == [c \in Callers |-> NoCall]
NoObs  == [callAt |-> 0, fetched |-> FALSE, failed |-> FALSE, prevFailed |-> FALSE,
           refreshed |-> FALSE]

(***************************************************************************)
(* The state machine: one invocation at a time of the deployed handler.    *)
(***************************************************************************)
Init ==
  /\ variant \in Variants
  /\ now = 0
  /\ blob = NoEntry
  /\ phase = "idle"
  /\ pend = NoPend
  /\ res = NoRes
  /\ loc = NoLoc
  /\ response = NoResponse
  /\ forecast \in Forecasts
  /\ sgState \in SgStates
  /\ obs = NoObs
  /\ last = 0
  /\ verdict = "none"
  /\ arg = NoArg
  /\ out = NoOut
  /\ calls = NoCalls

fixed == <<variant, forecast, last, verdict, arg, out, calls>>

\* the tasks the handler starts before its first suspension
startedAtInvoke(v) == IF Concurrent(v) THEN TaskSet(v) ELSE {Order(v)[1]}

\* the handler is called: it runs to its first await
Invoke ==
  /\ phase \in {"idle", "responded"}
  /\ phase' = "running"
  /\ pend' = [t \in Tasks |->
                IF t \in startedAtInvoke(variant) THEN FirstOp(variant, t) ELSE "none"]
  /\ res' = NoRes
  /\ loc' = NoLoc
  /\ response' = NoResponse
  /\ obs' = [callAt |-> now, fetched |-> (variant = "final"), failed |-> FALSE,
             prevFailed |-> obs.failed, refreshed |-> obs.refreshed]
  /\ UNCHANGED <<now, blob, sgState, fixed>>

\* task t settles with outcome o: the handler goes on to its next await, or
\* returns (try), or catches; ob is obs as the task's own step leaves it
Finish(t, o, ob) ==
  LET r2   == [res EXCEPT ![t] = o]
      p2   == [pend EXCEPT ![t] = "none"]
      ord  == Order(variant)
      i    == CHOOSE k \in 1..Len(ord) : ord[k] = t
      all  == \A u \in TaskSet(variant) : r2[u].st = "resolved"
  IN /\ res' = r2
     /\ IF o = Reject
        THEN /\ phase' = "responded"
             /\ pend' = NoPend
             /\ response' = catchResponse(variant)
             /\ obs' = ob
        ELSE IF all
        THEN /\ phase' = "responded"
             /\ pend' = NoPend
             /\ response' = okResponse(variant, r2, now)
             /\ obs' = ob
        ELSE IF Concurrent(variant)
        THEN /\ pend' = p2
             /\ obs' = ob
             /\ UNCHANGED <<phase, response>>
        ELSE /\ pend' = [p2 EXCEPT ![ord[i + 1]] = FirstOp(variant, ord[i + 1])]
             /\ obs' = IF ord[i + 1] = "waves" THEN [ob EXCEPT !.callAt = now] ELSE ob
             /\ UNCHANGED <<phase, response>>

buoyOutcome(v, resp) ==
  CASE v \in {"final", "tsv"} -> safeBuoy(resp)
    [] v \in {"blobs", "pdf"} -> safeFetchBuoy(resp)
    [] v = "cjs"  -> fetchBuoyCjs(resp)
    [] v = "edge" -> parseBuoy(resp)

\* the buoy fetch of station t answers with one of R
BuoySettle(t, R) ==
  /\ phase = "running" /\ pend[t] = "fetch"
  /\ \E resp \in R : Finish(t, buoyOutcome(variant, resp), obs)
  /\ UNCHANGED <<now, blob, loc, sgState, fixed>>

tidesOutcome(v, resp) ==
  CASE v = "final" -> getNoaaTides(resp)
    [] v = "blobs" -> safeFetchTides(resp)
    [] v = "cjs"   -> tidesCjs(resp)
    [] v = "edge"  -> tidesEdge(resp)

\* the tide fetch answers
TidesSettle(R) ==
  /\ phase = "running" /\ pend["tides"] = "fetch"
  /\ \E resp \in R : Finish("tides", tidesOutcome(variant, resp), obs)
  /\ UNCHANGED <<now, blob, loc, sgState, fixed>>

\* getSunData of the final revision: the GitHub read of sun.json answers
GetSunDataSettle(R) ==
  /\ phase = "running" /\ pend["sun"] = "github"
  /\ \E resp \in R : Finish("sun", getSunData(resp), obs)
  /\ UNCHANGED <<now, blob, loc, sgState, fixed>>

\* the sun block of the cjs and edge revisions: sunrise-sunset.org answers
SunApiSettle(R) ==
  /\ phase = "running" /\ pend["sun"] = "fetch"
  /\ \E resp \in R : Finish("sun", sunApi(resp), obs)
  /\ UNCHANGED <<now, blob, loc, sgState, fixed>>

\* getUsharborsToday of the tsv revision: the GitHub read of the TSV answers
GetUsharborsTodaySettle(R) ==
  /\ phase = "running" /\ pend["ush"] = "github"
  /\ \E resp \in R : Finish("ush", getUsharborsToday(resp, now), obs)
  /\ UNCHANGED <<now, blob, loc, sgState, fixed>>

\* safeFetchUsharbors of the pdf revision: the PDF fetch answers
SafeFetchUsharborsSettle(R) ==
  /\ phase = "running" /\ pend["ush"] = "fetch"
  /\ \E resp \in R : Finish("ush", safeFetchUsharbors(resp), obs)
  /\ UNCHANGED <<now, blob, loc, sgState, fixed>>

\* getWavesCached (blobs, pdf), first await: store.get answers, and the test
\* of the entry's age is made at once; the store itself may fail
GetWavesCachedGet ==
  /\ phase = "running" /\ pend["waves"] = "get"
  /\ UNCHANGED <<now, blob, loc, sgState, fixed>>
  /\ \E storeOk \in BOOLEAN :
       IF ~storeOk THEN Finish("waves", Reject, obs)
       ELSE IF isFresh(blob, variant, now)
       THEN Finish("waves", Resolve(blob.waves), obs)
       ELSE /\ pend' = [pend EXCEPT !["waves"] = "fetch"]
            /\ obs' = [obs EXCEPT !.fetched = TRUE]
            /\ UNCHANGED <<phase, res, response>>

\* getWavesCached, second await: fetchStormglass answers; the entry to store
\* is built with Date.now()
GetWavesCachedFetch ==
  /\ phase = "running" /\ pend["waves"] = "fetch" /\ variant \in {"blobs", "pdf"}
  /\ loc' = [waves |-> fetchStormglass(sgState, forecast, now), timestamp |-> now]
  /\ pend' = [pend EXCEPT !["waves"] = "set"]
  /\ obs' = [obs EXCEPT !.failed = (sgState # "ok")]
  /\ UNCHANGED <<now, blob, phase, res, response, sgState, fixed>>

\* getWavesCached, third await: store.setJSON answers
GetWavesCachedSet ==
  /\ phase = "running" /\ pend["waves"] = "set"
  /\ UNCHANGED <<now, loc, sgState, fixed>>
  /\ \E storeOk \in BOOLEAN :
       IF storeOk
       THEN /\ blob' = setJSON(blob, [timestamp |-> loc.timestamp, waves |-> loc.waves])
            /\ Finish("waves", Resolve(loc.waves),
                      [obs EXCEPT !.refreshed = ~obs.failed])
       ELSE /\ blob' = blob
            /\ Finish("waves", Reject, obs)

\* JSON.parse(file.content) in a try: the stored forecast, or null
storedOf(g, resp) ==
  IF g.val = Null THEN Null
  ELSE IF ~resp.content.parses THEN Null
  ELSE resp.content.value

\* getStormglassForecast of the tsv revision, first await: the GitHub read of
\* stormglass.json answers
GetStormglassForecastGithub ==
  /\ phase = "running" /\ pend["waves"] = "github"
  /\ UNCHANGED <<now, blob, loc, sgState, fixed>>
  /\ \E resp \in GithubSgResponses(now, forecast) :
       LET g == githubGet(resp)
       IN IF g = Reject THEN Finish("waves", Reject, obs)
          ELSE IF storedOf(g, resp) = Null
                  \/ shouldUpdateStormglass(storedOf(g, resp).timestamp, now)
          THEN /\ pend' = [pend EXCEPT !["waves"] = "fetch"]
               /\ obs' = [obs EXCEPT !.fetched = TRUE]
               /\ UNCHANGED <<phase, res, response>>
          ELSE Finish("waves", Resolve(storedOf(g, resp)), obs)

\* fetchStormglassFresh (final, tsv): Stormglass answers
FetchStormglassFreshSettle ==
  /\ phase = "running" /\ pend["waves"] = "fetch" /\ variant \in {"final", "tsv"}
  /\ Finish("waves", fetchStormglassFresh(sgState, forecast, now),
            [obs EXCEPT !.failed = (sgState # "ok"), !.refreshed = (sgState = "ok")])
  /\ UNCHANGED <<now, blob, loc, sgState, fixed>>

\* the waves block of the cjs and edge revisions: the raw GitHub file answers
WavesFromGithubSettle ==
  /\ phase = "running" /\ pend["waves"] = "fetch" /\ variant \in {"cjs", "edge"}
  /\ \E resp \in RawSgResponses(forecast) :
       Finish("waves", Resolve(wavesFromGithub(resp, now)), obs)
  /\ UNCHANGED <<now, blob, loc, sgState, fixed>>

\* the Stormglass upstream fails or recovers, between two invocations (an
\* invocation asks it at most once)
UpstreamChange ==
  /\ phase # "running"
  /\ \E st \in SgStates \ {sgState} : sgState' = st
  /\ UNCHANGED <<now, blob, phase, pend, res, loc, response, obs, fixed>>

\* Step hours pass
Tick ==
  /\ now < MaxNow
  /\ now' = now + Step
  /\ obs' = [obs EXCEPT !.refreshed = FALSE]
  /\ UNCHANGED <<blob, phase, pend, res, loc, response, sgState, fixed>>

\* the steps of the wave source, the same under every specification
WaveSteps ==
  \/ GetWavesCachedGet
  \/ GetWavesCachedFetch
  \/ GetWavesCachedSet
  \/ GetStormglassForecastGithub
  \/ FetchStormglassFreshSettle
  \/ WavesFromGithubSettle

(***************************************************************************)
(* Spec: every source fails in every way, within one clock hour.           *)
(***************************************************************************)
Next ==
  \/ Invoke
  \/ \E t \in {"gulf", "bay"} : BuoySettle(t, BuoyResponses)
  \/ TidesSettle(TideResponses)
  \/ GetSunDataSettle(GithubSunResponses)
  \/ SunApiSettle(SunApiResponses)
  \/ GetUsharborsTodaySettle(GithubUshResponses)
  \/ SafeFetchUsharborsSettle(PdfResponses)
  \/ WaveSteps
  \/ UpstreamChange

Spec == Init /\ [][Next]_vars

(***************************************************************************)
(* SpecWaves: the clock runs and the wave source fails in every way, while *)
(* the buoy, tide and sun upstreams answer well.                           *)
(***************************************************************************)
NextWaves ==
  \/ Invoke
  \/ \E t \in {"gulf", "bay"} : BuoySettle(t, {GoodBuoy})
  \/ TidesSettle({GoodTides})
  \/ GetSunDataSettle({GoodSunFile})
  \/ SunApiSettle({GoodSunApi})
  \/ GetUsharborsTodaySettle({GoodUsh})
  \/ SafeFetchUsharborsSettle({GoodPdf})
  \/ WaveSteps
  \/ UpstreamChange
  \/ Tick

SpecWaves == Init /\ [][NextWaves]_vars

(***************************************************************************)
(* SpecLive: Spec with an upstream that may never answer.  No fetch of the *)
(* program carries a deadline (no AbortController, no timer), so a task    *)
(* whose upstream never answers stays suspended at its await.  Every       *)
(* upstream that does answer answers in the end: weak fairness of the      *)
(* settling steps.                                                         *)
(***************************************************************************)
\* the upstream task t waits for never answers: "await fetch(url)" stays
\* pending
NeverAnswers(t) ==
  /\ phase = "running"
  /\ pend[t] \notin {"none", "lost"}
  /\ pend' = [pend EXCEPT ![t] = "lost"]
  /\ UNCHANGED <<now, blob, phase, res, loc, response, sgState, obs, fixed>>

\* an upstream answers some task
Settles ==
  \/ \E t \in {"gulf", "bay"} : BuoySettle(t, BuoyResponses)
  \/ TidesSettle(TideResponses)
  \/ GetSunDataSettle(GithubSunResponses)
  \/ SunApiSettle(SunApiResponses)
  \/ GetUsharborsTodaySettle(GithubUshResponses)
  \/ SafeFetchUsharborsSettle(PdfResponses)
  \/ WaveSteps

NextLive ==
  \/ Invoke
  \/ Settles
  \/ UpstreamChange
  \/ \E t \in Tasks : NeverAnswers(t)

SpecLive == Init /\ [][NextLive]_vars /\ WF_vars(Settles)

(***************************************************************************)
(* SpecBoundary: shouldUpdateStormglass alone, applied to a stored         *)
(* timestamp and a later call time up to MaxDay days apart.                *)
(***************************************************************************)
MaxDay == 31

\* the hours of the day tried: either side of midnight and of noon
HoursTried == {0, 11, 12, 13, 23}

Moments == {24 * d + h : d \in 0..MaxDay, h \in HoursTried}

InitBoundary ==
  /\ variant = "tsv"
  /\ last \in Moments
  /\ now \in {t \in Moments : t >= last}
  /\ verdict = "none"
  /\ blob = NoEntry
  /\ phase = "idle"
  /\ pend = NoPend
  /\ res = NoRes
  /\ loc = NoLoc
  /\ response = NoResponse
  /\ forecast \in Forecasts
  /\ sgState = "ok"
  /\ obs = NoObs
  /\ arg = NoArg
  /\ out = NoOut
  /\ calls = NoCalls

\* getStormglassForecast's test of a parsed stored file:
\* shouldUpdateStormglass(stored.timestamp)
ApplyShouldUpdate ==
  /\ verdict = "none"
  /\ verdict' = IF shouldUpdateStormglass(Num(last), now) THEN "stale" ELSE "kept"
  /\ UNCHANGED <<variant, now, blob, phase, pend, res, loc, response, forecast,
                 sgState, obs, last, arg, out, calls>>

NextBoundary == ApplyShouldUpdate

SpecBoundary == InitBoundary /\ [][NextBoundary]_vars

(***************************************************************************)
(* SpecParse: the buoy parsers alone, each applied to the same payload.    *)
(* A payload is a header (the five column names in some order, or none)    *)
(* and up to MaxRows rows of readings, newest first.                       *)
(***************************************************************************)
MaxRows == 2

\* the five names in every column order
Headers == {h \in [1..5 -> FieldNames] : \A i, j \in 1..5 : h[i] = h[j] => i = j}

\* readings by name: the newest, an older one, the newest without its air
\* temperature, a calm (wind measured as 0), no wind readings, nothing
ReadNew == [WDIR |-> Num(12000), WSPD |-> Num(520), GST |-> Num(710),
            ATMP |-> Num(2340), WTMP |-> Num(2210)]
ReadOld == [WDIR |-> Num(9000), WSPD |-> Num(410), GST |-> Num(600),
            ATMP |-> Num(2280), WTMP |-> Num(2200)]
ReadGapAir == [ReadNew EXCEPT !.ATMP = MM]
ReadCalm   == [ReadNew EXCEPT !.WSPD = Num(0), !.GST = Num(0), !.WDIR = Num(0)]
ReadNoWind == [ReadNew EXCEPT !.WSPD = MM, !.GST = MM, !.WDIR = MM]
ReadNone   == [f \in FieldNames |-> MM]

ReadingsTried == {ReadNew, ReadOld, ReadGapAir, ReadCalm, ReadNoWind, ReadNone}

\* the answer of the buoy server that holds the readings under header h (in
\* the standard order when there is no header line)
BuoyPayload(h, reads) ==
  [kind |-> "http", ok |-> TRUE,
   body |-> [header |-> h,
             rows |-> [k \in 1..Len(reads) |->
                         [i \in 1..5 |->
                            reads[k][IF h = <<>> THEN StdHeader[i] ELSE h[i]]]]]]

BuoyArgs ==
  {[fn |-> "buoy", header |-> h, reads |-> r] :
     h \in Headers \cup {<<>>},
     r \in UNION {[1..n -> ReadingsTried] : n \in 0..MaxRows}}

\* every variable of the handlers at rest
AtRest ==
  /\ variant = "final"
  /\ now = 0
  /\ blob = NoEntry
  /\ phase = "idle"
  /\ pend = NoPend
  /\ res = NoRes
  /\ loc = NoLoc
  /\ response = NoResponse
  /\ forecast \in Forecasts
  /\ sgState = "ok"
  /\ obs = NoObs
  /\ last = 0
  /\ verdict = "none"
  /\ calls = NoCalls

atRest == <<variant, now, blob, phase, pend, res, loc, response, forecast,
            sgState, obs, last, verdict, calls>>

InitParse == AtRest /\ arg \in BuoyArgs /\ out = NoOut

\* what each parser settles with on the payload
ApplyBuoyParsers ==
  /\ arg.fn = "buoy" /\ out = NoOut
  /\ LET p == BuoyPayload(arg.header, arg.reads)
     IN out' = [fn |-> "buoy",
                byName |-> fetchBuoy(p),
                fixedCol |-> fetchBuoyFixed(p),
                util |-> fetchBuoyUtil(p),
                cjs |-> fetchBuoyCjs(p),
                edge |-> parseBuoy(p)]
  /\ UNCHANGED <<atRest, arg>>

NextParse == ApplyBuoyParsers

SpecParse == InitParse /\ [][NextParse]_vars

(***************************************************************************)
(* SpecCompass: degToCardinal alone, applied to the directions from 0 in   *)
(* quarters of a degree.                                                   *)
(***************************************************************************)
MaxQuarter == 1440

CompassArgs == {[fn |-> "deg", d |-> 25 * k] : k \in 0..MaxQuarter}

InitCompass == AtRest /\ arg \in CompassArgs /\ out = NoOut

\* degToCardinal(d) as functions/weather.js and as util.js have it
ApplyDegToCardinal ==
  /\ arg.fn = "deg" /\ out = NoOut
  /\ out' = [fn |-> "deg",
             card |-> degToCardinal(Num(arg.d)),
             util |-> degToCardinalUtil(Num(arg.d))]
  /\ UNCHANGED <<atRest, arg>>

NextCompass == ApplyDegToCardinal

SpecCompass == InitCompass /\ [][NextCompass]_vars

(***************************************************************************)
(* SpecTides: the tide clients alone, applied to a day's prediction list   *)
(* of up to MaxTides entries in chronological order, each a high or a low, *)
(* no two at the same time or of the same height.                          *)
(***************************************************************************)
MaxTides == 5

\* the k-th prediction of the day
tideEntry(k, ty) == [t |-> 130 + 240 * (k - 1), v |-> 30 + 7 * k, type |-> ty]

TideArgs ==
  {[fn |-> "tides", ps |-> [k \in 1..n |-> tideEntry(k, tys[k])]] :
     n \in 0..MaxTides, tys \in [1..MaxTides -> {"H", "L"}]}

InitTides == AtRest /\ arg \in TideArgs /\ out = NoOut

\* getNoaaTides of the final revision, fetchTides of the blobs revision and
\* the tides block of the cjs handler on the same list
ApplyTideClients ==
  /\ arg.fn = "tides" /\ out = NoOut
  /\ LET resp == [kind |-> "http", ok |-> TRUE, json |-> TRUE, has |-> TRUE,
                  predictions |-> arg.ps]
     IN out' = [fn |-> "tides",
                final |-> getNoaaTides(resp),
                blobs |-> fetchTides(resp),
                cjs   |-> tidesCjs(resp)]
  /\ UNCHANGED <<atRest, arg>>

NextTides == ApplyTideClients

SpecTides == InitTides /\ [][NextTides]_vars

(***************************************************************************)
(* SpecSelect: wave selection alone, applied to a stored series and a      *)
(* current time.  A series is points at some of the hours 0..MaxTime in    *)
(* chronological order, the k-th of height 2 + k feet.                     *)
(***************************************************************************)
MaxTime == 4

\* the hours of the set ts in ascending order
RECURSIVE ascending(_)
ascending(ts) ==
  IF ts = {} THEN <<>>
  ELSE LET least == CHOOSE a \in ts : \A b \in ts : a <= b
       IN <<least>> \o ascending(ts \ {least})

seriesAt(ts) ==
  [k \in 1..Cardinality(ts) |->
     [time |-> ascending(ts)[k], waveFt |-> Num(200 + 100 * k)]]

SelectArgs ==
  {[fn |-> "pick", series |-> seriesAt(ts), t |-> t] :
     ts \in SUBSET (0..MaxTime), t \in 0..MaxTime}

InitSelect == AtRest /\ arg \in SelectArgs /\ out = NoOut

\* pickCurrentWave of the final and tsv revisions and the waves block of the
\* cjs handler on the same stored series at the same time
ApplySelection ==
  /\ arg.fn = "pick" /\ out = NoOut
  /\ out' = [fn |-> "pick",
             pick |-> pickCurrentWave([timestamp |-> 0, waves |-> arg.series], arg.t),
             cjs  |-> wavesFromGithub([kind |-> "http", json |-> TRUE, has |-> TRUE,
                                       waves |-> arg.series], arg.t)]
  /\ UNCHANGED <<atRest, arg>>

NextSelect == ApplySelection

SpecSelect == InitSelect /\ [][NextSelect]_vars

(***************************************************************************)
(* SpecSun: computeSunriseSunset alone, from the hour-angle cosine on.     *)
(* The solar position arithmetic before it (N, M, L, RA, sinDec, cosDec)   *)
(* is floating-point trigonometry and is not modelled: its two results,    *)
(* cosH (here in hundredths) and the offset RA - 0.06571*t - 6.622 -       *)
(* lngHour (here in whole hours), are the inputs.                          *)
(***************************************************************************)
MaxOffset == 11

\* the cosines tried: those whose arc cosine is a whole number of degrees,
\* and values on either side of 1 and of -1
CosTried == {-150, -101, -100, -50, 0, 50, 100, 101, 150}

\* Math.acos(c) * 180 / Math.PI, in degrees; NaN outside [-1, 1]
acosDeg(c) ==
  CASE c = -100 -> Num(180) [] c = -50 -> Num(120) [] c = 0 -> Num(90)
    [] c = 50 -> Num(60)    [] c = 100 -> Num(0)   [] OTHER -> NaN

\* toLocalTime(T, lngHour, date), T - lngHour in minutes: the clock time of
\* the day, "Invalid Date" when it is NaN
toLocalTime(hoursUTC) ==
  IF hoursUTC = NaN THEN Str("Invalid Date")
  ELSE HM(((hoursUTC.n \div 60) % 24) * 60 + (hoursUTC.n % 60))

\* Hrise = (360 - acos)/15 and Hset = acos/15 hours, plus the offset
riseMinutes(c, offset) ==
  IF acosDeg(c) = NaN THEN NaN ELSE Num((360 - acosDeg(c).n) * 4 + 60 * offset)
setMinutes(c, offset) ==
  IF acosDeg(c) = NaN THEN NaN ELSE Num(acosDeg(c).n * 4 + 60 * offset)

\* computeSunriseSunset without its test for cosH < -1
computeSunriseSunsetNoPolarDay(c, offset) ==
  IF c > 100 THEN [sunrise |-> Null, sunset |-> Null]
  ELSE [sunrise |-> toLocalTime(riseMinutes(c, offset)),
        sunset  |-> toLocalTime(setMinutes(c, offset))]

\* computeSunriseSunset from cosH on
computeSunriseSunset(c, offset) ==
  IF c > 100 THEN [sunrise |-> Null, sunset |-> Null]
  ELSE IF c < -100 THEN [sunrise |-> Null, sunset |-> Null]
  ELSE [sunrise |-> toLocalTime(riseMinutes(c, offset)),
        sunset  |-> toLocalTime(setMinutes(c, offset))]

SunArgs == {[fn |-> "sun", cosH |-> c, offset |-> o] : c \in CosTried, o \in 0..MaxOffset}

InitSun == AtRest /\ arg \in SunArgs /\ out = NoOut

ApplyComputeSunriseSunset ==
  /\ arg.fn = "sun" /\ out = NoOut
  /\ out' = [fn |-> "sun", val |-> computeSunriseSunset(arg.cosH, arg.offset)]
  /\ UNCHANGED <<atRest, arg>>

NextSun == ApplyComputeSunriseSunset

SpecSun == InitSun /\ [][NextSun]_vars

(***************************************************************************)
(* SpecConcurrent: getWavesCached alone, called by two invocations whose   *)
(* awaits interleave in every order while the clock runs and Stormglass    *)
(* fails and recovers.  store.get and store.setJSON each answer in one     *)
(* step: the code hands the store one whole object under one key.          *)
(***************************************************************************)
\* the entry that was stored before the two calls, written at hour 0
oldEntry == [timestamp |-> 0, waves |-> fetchStormglass("ok", forecast, 0)]

InitConcurrent ==
  /\ variant \in {"blobs", "pdf"}
  /\ now = 0
  /\ forecast \in Forecasts
  /\ blob \in {NoEntry, oldEntry}
  /\ phase = "idle"
  /\ pend = NoPend
  /\ res = NoRes
  /\ loc = NoLoc
  /\ response = NoResponse
  /\ sgState \in SgStates
  /\ obs = NoObs
  /\ last = 0
  /\ verdict = "none"
  /\ arg = [fn |-> "getWavesCached", stored |-> blob]
  /\ out = NoOut
  /\ calls = NoCalls

aside == <<variant, phase, pend, res, loc, response, forecast, obs, last, verdict,
           arg, out>>

\* an invocation calls getWavesCached: store.get is asked
CallGetWavesCached(c) ==
  /\ calls[c].pc = "idle"
  /\ calls' = [calls EXCEPT ![c].pc = "get"]
  /\ UNCHANGED <<now, blob, sgState, aside>>

\* store.get answers call c, and the age of the entry is tested at once
StoreGet(c) ==
  /\ calls[c].pc = "get"
  /\ UNCHANGED <<now, blob, sgState, aside>>
  /\ \E storeOk \in BOOLEAN :
       IF ~storeOk
       THEN calls' = [calls EXCEPT ![c].pc = "done", ![c].ret = Reject]
       ELSE IF isFresh(blob, variant, now)
       THEN calls' = [calls EXCEPT ![c].pc = "done", ![c].cached = blob,
                                   ![c].ret = Resolve(blob.waves)]
       ELSE calls' = [calls EXCEPT ![c].pc = "fetch", ![c].cached = blob]

\* fetchStormglass answers call c; the entry to store is built with Date.now()
StormglassAnswers(c) ==
  /\ calls[c].pc = "fetch"
  /\ calls' = [calls EXCEPT ![c].pc = "set",
                            ![c].waves = fetchStormglass(sgState, forecast, now),
                            ![c].timestamp = now]
  /\ UNCHANGED <<now, blob, sgState, aside>>

\* store.setJSON answers call c
StoreSet(c) ==
  /\ calls[c].pc = "set"
  /\ UNCHANGED <<now, sgState, aside>>
  /\ \E storeOk \in BOOLEAN :
       IF storeOk
       THEN /\ blob' = setJSON(blob, [timestamp |-> calls[c].timestamp,
                                      waves |-> calls[c].waves])
            /\ calls' = [calls EXCEPT ![c].pc = "done", ![c].wrote = TRUE,
                                      ![c].ret = Resolve(calls[c].waves)]
       ELSE /\ blob' = blob
            /\ calls' = [calls EXCEPT ![c].pc = "done", ![c].ret = Reject]

NextConcurrent ==
  \/ \E c \in Callers : CallGetWavesCached(c)
  \/ \E c \in Callers : StoreGet(c)
  \/ \E c \in Callers : StormglassAnswers(c)
  \/ \E c \in Callers : StoreSet(c)
  \/ UpstreamChange
  \/ Tick

SpecConcurrent == InitConcurrent /\ [][NextConcurrent]_vars

(***************************************************************************)
(* SpecSkip: wave selection alone on a forecast in which heights are       *)
(* missing.  A forecast is points at some of the hours 0..MaxHour in       *)
(* chronological order, each with a height in metres, with sg null, or     *)
(* with no waveHeight.sg at all.                                           *)
(***************************************************************************)
MaxHour == 3

HeightsTried == {"num", "null", "undefined"}

\* the forecast with points at the hours ts, the one of hour h of kind f[h]
hoursAt(ts, f) ==
  [k \in 1..Cardinality(ts) |->
     LET h == ascending(ts)[k]
     IN [time |-> h,
         sg   |-> IF f[h] = "num" THEN hourPoint(h).sg
                  ELSE IF f[h] = "null" THEN Null ELSE Undefined]]

SkipArgs ==
  {[fn |-> "skip", hours |-> hoursAt(ts, f), t |-> t] :
     ts \in SUBSET (0..MaxHour), f \in [0..MaxHour -> HeightsTried], t \in 0..MaxHour}

InitSkip == AtRest /\ arg \in SkipArgs /\ out = NoOut

\* the same Stormglass answer selected at the same time by pickCurrentWave on
\* what fetchStormglassFresh returns (final, tsv) and by fetchStormglass
\* (blobs, pdf)
ApplySkip ==
  /\ arg.fn = "skip" /\ out = NoOut
  /\ out' = [fn |-> "skip",
             pick    |-> pickCurrentWave(
                           fetchStormglassFresh("ok", arg.hours, arg.t).val, arg.t),
             closest |-> fetchStormglass("ok", arg.hours, arg.t)]
  /\ UNCHANGED <<atRest, arg>>

NextSkip == ApplySkip

SpecSkip == InitSkip /\ [][NextSkip]_vars

(***************************************************************************)
(* SpecAlerts: applyAlertLogic of the board alone, applied to the two      *)
(* stations' observations as fetchBuoy of js/buoys.js gives them (a number *)
(* to one decimal, or null) on a page whose elements carry some classes.   *)
(***************************************************************************)
\* JavaScript's v < n and v >= n for a number n (in hundredths): null counts
\* as 0, undefined, NaN and a text that is no number compare false
ToNumber(v) ==
  IF v = Null THEN Num(0)
  ELSE IF v.tag \in {"num", "numstr"} THEN Num(v.n)
  ELSE NaN
lessThan(v, n)    == ToNumber(v) # NaN /\ ToNumber(v).n < n
atLeast(v, n)     == ToNumber(v) # NaN /\ ToNumber(v).n >= n

ColdBelow  == 60 * 100
WindyFrom  == 25 * 100

AlertClasses == {"alert-red", "alert-yellow"}
WaterIds == {"waterLabel", "gulfWater", "bayWater"}
AirIds   == {"airLabel", "gulfAir", "bayAir"}
WindIds  == {"windLabel", "gulfWind", "bayWind"}
Ids      == WaterIds \cup AirIds \cup WindIds

\* clearAlerts(): every element loses both alert classes
clearAlerts(dom) == [id \in Ids |-> dom[id] \ AlertClasses]

\* mark(id, cls)
mark(dom, id, cls) == [dom EXCEPT ![id] = @ \cup {cls}]

\* the three mark calls of one branch
mark3(dom, a, b, c, cls) == mark(mark(mark(dom, a, cls), b, cls), c, cls)

\* applyAlertLogic(data) on the page dom: the page it leaves
applyAlertLogic(dom, data) ==
  LET gw == data.gulf.waterF
      bw == data.bay.waterF
      ga == data.gulf.airF
      ba == data.bay.airF
      waterLow == lessThan(gw, ColdBelow) \/ lessThan(bw, ColdBelow)
      airLow   == lessThan(ga, ColdBelow) \/ lessThan(ba, ColdBelow)
      d0 == clearAlerts(dom)
      d1 == IF waterLow
            THEN mark3(d0, "waterLabel", "gulfWater", "bayWater", "alert-red") ELSE d0
      d2 == IF airLow /\ ~waterLow
            THEN mark3(d1, "airLabel", "gulfAir", "bayAir", "alert-yellow") ELSE d1
      d3 == IF airLow /\ waterLow
            THEN mark3(d2, "airLabel", "gulfAir", "bayAir", "alert-red") ELSE d2
  IN IF \/ atLeast(data.gulf.gustKts, WindyFrom) \/ atLeast(data.bay.gustKts, WindyFrom)
        \/ atLeast(data.gulf.windKts, WindyFrom) \/ atLeast(data.bay.windKts, WindyFrom)
     THEN mark3(d3, "windLabel", "gulfWind", "bayWind", "alert-red") ELSE d3

\* the readings tried: unavailable, and either side of each threshold
TempsTried  == {Null, Num(ColdBelow - 10), Num(ColdBelow)}
SpeedsTried == {Null, Num(WindyFrom - 10), Num(WindyFrom)}

StationsTried ==
  [airF : TempsTried, waterF : TempsTried, windKts : SpeedsTried, gustKts : SpeedsTried]

\* the page before the call: no alert shown, or every element red from the
\* refresh before
PagesTried == {[id \in Ids |-> {}], [id \in Ids |-> {"alert-red"}]}

AlertArgs ==
  {[fn |-> "alerts", dom |-> d, data |-> [gulf |-> g, bay |-> b]] :
     d \in PagesTried, g \in StationsTried, b \in StationsTried}

InitAlerts == AtRest /\ arg \in AlertArgs /\ out = NoOut

ApplyAlerts ==
  /\ arg.fn = "alerts" /\ out = NoOut
  /\ out' = [fn |-> "alerts", dom |-> applyAlertLogic(arg.dom, arg.data)]
  /\ UNCHANGED <<atRest, arg>>

NextAlerts == ApplyAlerts

SpecAlerts == InitAlerts /\ [][NextAlerts]_vars

(***************************************************************************)
(* The properties.                                                         *)
(***************************************************************************)

\* C1: whatever sources fail, the handler answers with status 200 and
\* Content-Type application/json.  Violated: the catch blocks of the blobs, pdf,
\* cjs and edge revisions answer 500 with no headers.
C1_Always200Json ==
  phase = "responded" =>
    (response.statusCode = 200 /\ response.contentType = "application/json")

\* the report's field b holds what the source b resolved with
Carries(b) ==
  /\ res[b].st = "resolved"
  /\ b \in DOMAIN response.body
  /\ response.body[b] = stringifyObs(res[b].val)

\* C2: when exactly one source throws and every other source has answered,
\* the report still carries the other sources' values.  Violated: in the final
\* and tsv revisions the rejection of one task rejects Promise.all, and the
\* catch block reports gulf and bay as null.
C2_OneThrowKeepsOthers ==
  \A t \in TaskSet(variant) :
    (/\ phase = "responded"
     /\ res[t] = Reject
     /\ \A u \in TaskSet(variant) \ {t} : res[u].st = "resolved")
    => \A b \in {"gulf", "bay"} \ {t} : Carries(b)

\* the values a source resolves with when it falls back
FallbackValues ==
  {FallbackObs, Undefined, Null, NoTides, NoSun, NoWave, UshFallback,
   [waveFt |-> Null],
   [airF |-> Null, waterF |-> Null, windKts |-> Num(0), gustKts |-> Num(0),
    windDirCardinal |-> Str("--")],
   [outdated |-> TRUE, tides |-> NoTides, sun |-> NoSun]}

\* source t threw or resolved with its fallback
FellBack(t) ==
  res[t] = Reject \/ (res[t].st = "resolved" /\ res[t].val \in FallbackValues)

\* C3: the report carries a degraded flag, true exactly when at least one
\* source fell back.  Violated: no revision writes a degraded field.
C3_DegradedFlag ==
  phase = "responded" =>
    /\ "degraded" \in DOMAIN response.body
    /\ response.body.degraded = Bool(\E t \in TaskSet(variant) : FellBack(t))

ObsFields == {"airF", "waterF", "windKts", "gustKts", "windDirCardinal"}

\* a StationObservation: the five fields, a number or null each, the
\* direction a compass point or "--"
IsStationObservation(o) ==
  /\ DOMAIN o = ObsFields
  /\ \A f \in ObsFields \ {"windDirCardinal"} : o[f] = Null \/ o[f].tag = "num"
  /\ o.windDirCardinal \in {Str(dirs[i]) : i \in 1..16} \cup {Str("--")}

\* C4: gulf and bay are StationObservation objects with all five fields in
\* every report, on the success path and on the failure path.  Violated: the
\* catch blocks of the final and tsv revisions report gulf: null, bay: null.
C4_StationsAlwaysObjects ==
  phase = "responded" =>
    \A b \in {"gulf", "bay"} :
      b \in DOMAIN response.body /\ IsStationObservation(response.body[b])

\* the heights, in feet, of the forecast points closest in time to t
NearestHeights(hours, t) ==
  {mToFt(hours[i].sg.n) :
     i \in {j \in 1..Len(hours) :
              /\ IsNum(hours[j].sg)
              /\ \A k \in 1..Len(hours) :
                   IsNum(hours[k].sg) =>
                     abs(hours[j].time - t) <= abs(hours[k].time - t)}}

\* C5: the height a call of the wave source returns, a cached one included,
\* is that of the forecast point closest to the moment of that call (a moment
\* between the call's start and the report).  Violated: getWavesCached stores
\* the height selected when the cache was filled and returns it until the
\* entry expires.
C5_HeightOfCallMoment ==
  (/\ phase = "responded"
   /\ response.statusCode = 200
   /\ response.body.waves.waveFt.tag \in {"num", "numstr"})
  => \E t \in obs.callAt..now :
       response.body.waves.waveFt.n \in NearestHeights(forecast, t)

\* the step in which store.get answers getWavesCached and an entry is stored
CacheRead ==
  /\ pend["waves"] = "get" /\ pend'["waves"] # "get"
  /\ blob # NoEntry
  /\ res'["waves"] # Reject

\* C6: a getWavesCached call less than TTL after the entry's timestamp returns
\* the cached value unchanged and fetches nothing; a call more than TTL after
\* it fetches afresh.
C6_CacheWithinTTL ==
  [][CacheRead =>
       /\ (now - blob.timestamp < TTL(variant)) =>
            (/\ res'["waves"] = Resolve(blob.waves)
             /\ ~obs'.fetched
             /\ blob' = blob)
       /\ (now - blob.timestamp > TTL(variant)) =>
            (pend'["waves"] = "fetch" /\ obs'.fetched)]_vars

\* a report served from an entry stored at an earlier hour, nothing fetched
C6_Witness ==
  /\ phase = "responded"
  /\ variant \in {"blobs", "pdf"}
  /\ response.statusCode = 200
  /\ ~obs.fetched
  /\ blob # NoEntry
  /\ obs.callAt > blob.timestamp
  /\ response.body.waves = blob.waves

\* a local midnight or a local noon lies after l and not after t
CrossedBoundary(l, t) == \E b \in (l + 1)..t : b % 12 = 0

\* C7: for every stored timestamp and every later call time with a local
\* midnight or noon between them, the stored forecast is treated as stale,
\* however far apart the two are.  Violated: shouldUpdateStormglass compares
\* the day of the month and the hour of the day only, so a stored file of
\* 1 January 00:00 read on 1 February 00:00 is kept.
C7_StaleAcrossBoundary ==
  (verdict # "none" /\ CrossedBoundary(last, now)) => verdict = "stale"

\* the step in which a failing upstream answers the wave source's fetch
FailedFetch ==
  /\ phase = "running"
  /\ variant \in {"tsv", "blobs", "pdf"}
  /\ pend["waves"] = "fetch" /\ pend'["waves"] # "fetch"
  /\ sgState # "ok"

\* C8: when the cache is stale and the upstream fetch fails, the wave source
\* gives the previously cached value if there is one and an empty (null)
\* forecast otherwise, and does not raise.  Violated: getStormglassForecast
\* lets the failure of fetchStormglassFresh through, and getWavesCached gives
\* the null height of the failed fetch whatever is stored.
C8_StaleFailureServesCache ==
  [][FailedFetch =>
       /\ res'["waves"] # Reject
       /\ variant \in {"blobs", "pdf"} =>
            loc'.waves = (IF blob = NoEntry THEN NoWave ELSE blob.waves)]_vars

\* the step in which getWavesCached's handler reports, on its success path
WaveReport ==
  /\ variant \in {"blobs", "pdf"}
  /\ phase = "running" /\ phase' = "responded"
  /\ response'.statusCode = 200

\* C9: after an invocation whose wave fetch failed, the next invocation, with
\* the upstream healthy, fetches upstream and reports a height.  Violated:
\* getWavesCached stores the null height of the failed fetch with a new
\* timestamp, and the next invocations are served that entry.
C9_FailureDoesNotPersist ==
  [][(WaveReport /\ obs'.prevFailed /\ sgState = "ok") =>
       (obs'.fetched /\ response'.body.waves.waveFt # Null)]_vars

\* C10: the handler starts every source fetch before it waits for any of them:
\* while it runs, no source is left unstarted.  Violated: the blobs, pdf, cjs
\* and edge revisions await one source after the other.
C10_AllStartedBeforeWaiting ==
  phase = "running" =>
    \A t \in TaskSet(variant) : pend[t] # "none" \/ res[t] # Pending

\* C11: every invocation returns a report in the end, whatever the upstreams
\* do, an upstream that never answers included.  Violated: no fetch has a
\* deadline, so the handler stays suspended at the await of a fetch that is
\* never answered.
C11_EventuallyReports == (phase = "running") ~> (phase = "responded")

\* what each parser settles with on the same readings in the standard column
\* order
StdOut ==
  LET p == BuoyPayload(StdHeader, arg.reads)
  IN [byName |-> fetchBuoy(p), fixedCol |-> fetchBuoyFixed(p),
      util |-> fetchBuoyUtil(p), cjs |-> fetchBuoyCjs(p), edge |-> parseBuoy(p)]

\* C12: with the five names in the header in any column order, the parser
\* reads each field under its name: the observation is the one of the same
\* readings in the standard order.  Violated: fetchBuoy of functions/weather.js
\* and of js/buoys.js reads the fixed columns c[5], c[6], c[7], c[13], c[14]
\* whatever the header says.
C12_AnyColumnOrder ==
  (out # NoOut /\ out.fn = "buoy" /\ arg.header # <<>>) =>
    \A q \in {"byName", "fixedCol", "util"} : out[q] = StdOut[q]

\* the rows of the readings whose token for field f is a number
Usable(reads, f) == {k \in 1..Len(reads) : reads[k][f].tag = "num"}

\* the token of field f in the first (newest) row that has a number for it
FirstUsable(reads, f) ==
  reads[CHOOSE k \in Usable(reads, f) : \A j \in Usable(reads, f) : k <= j][f]

\* the observation's fields and the feed's column each comes from
ColumnOf ==
  [airF |-> "ATMP", waterF |-> "WTMP", windKts |-> "WSPD", gustKts |-> "GST",
   windDirCardinal |-> "WDIR"]

\* what the observation's field g is when it is read from token tok (for the
\* direction: its compass point, or the token itself)
FromToken(g, tok) ==
  CASE g \in {"airF", "waterF"}    -> {Num(cToF(tok.n))}
    [] g \in {"windKts", "gustKts"} -> {Num(mpsToKts(tok.n))}
    [] OTHER -> {Str(degToCard(tok.n)), NumStr(tok.n)}

\* C13: each field on its own comes from the first (newest) row whose token
\* for it is a number: with the air temperature missing in the newest row only,
\* it comes from the older row and the other fields from the newest.
\* Violated: parseBuoy of the edge function returns from inside its loop at
\* the first row, so a field missing there is never taken from an older row.
C13_FieldWiseFallback ==
  (out # NoOut /\ out.fn = "buoy" /\ arg.header # <<>>) =>
    \A q \in {"byName", "cjs", "edge"} :
      \A g \in DOMAIN ColumnOf :
        Usable(arg.reads, ColumnOf[g]) # {} =>
          /\ out[q].st = "resolved"
          /\ out[q].val[g] \in FromToken(g, FirstUsable(arg.reads, ColumnOf[g]))

\* no row of the readings has a number for any field (no row at all included)
NoUsableRow(reads) == \A f \in FieldNames : Usable(reads, f) = {}

\* C14: parsing a payload that is empty, has no header line or has no usable
\* data row fails with an error and returns no observation.  Violated:
\* fetchBuoy of part_001 throws only for a missing header and resolves with an
\* all-null observation when no row is usable; fetchBuoy of functions/weather.js
\* throws only for zero rows and does not look for a header.
C14_MalformedPayloadFails ==
  (out # NoOut /\ out.fn = "buoy"
     /\ (arg.header = <<>> \/ NoUsableRow(arg.reads))) =>
    \A q \in {"byName", "fixedCol", "cjs"} : out[q] = Reject

\* the speed fields and the feed's column each comes from
SpeedColumn == [windKts |-> "WSPD", gustKts |-> "GST"]

\* C15: with no usable wind-speed or gust reading the reported speed is null,
\* never 0, and a reported 0 comes from a reading that measures 0.  Violated:
\* parseBuoy of the edge function reports 0 for the sentinel "MM" and in its
\* catch block.
C15_UnavailableWindIsNull ==
  (out # NoOut /\ out.fn = "buoy") =>
    \A q \in {"byName", "edge"} :
      (out[q].st = "resolved" /\ "windKts" \in DOMAIN out[q].val) =>
        \A g \in DOMAIN SpeedColumn :
          /\ (arg.header = <<>> \/ Usable(arg.reads, SpeedColumn[g]) = {})
               => out[q].val[g] = Null
          /\ out[q].val[g] = Num(0)
               => /\ arg.header # <<>>
                  /\ Usable(arg.reads, SpeedColumn[g]) # {}
                  /\ mpsToKts(FirstUsable(arg.reads, SpeedColumn[g]).n) = 0

\* the 16 compass points and the sentinel
CompassOrDash == {Str(dirs[i]) : i \in 1..16} \cup {Str("--")}

\* C16: whatever direction the feed holds, a number of degrees or nothing
\* usable, the observation's wind direction is one of the 16 compass points or
\* "--".  Violated: fetchBuoy of js/buoys.js reports null (util's degToCardinal)
\* when no direction is usable, and parseBuoy of the edge function reports the
\* feed's token itself.
C16_DirectionIsCompassOrDash ==
  (out # NoOut /\ out.fn = "buoy") =>
    \A q \in {"util", "edge"} :
      (out[q].st = "resolved" /\ "windDirCardinal" \in DOMAIN out[q].val) =>
        out[q].val.windDirCardinal \in CompassOrDash

\* C17: degToCardinal(0) = "N", degToCardinal(11.25) = "N",
\* degToCardinal(348.75) = "N" and degToCardinal(180) = "S".  Violated:
\* Math.floor(11.25 / 22.5 + 0.5) is 1, so degToCardinal(11.25) is "NNE".
C17_CompassRounding ==
  (out # NoOut /\ out.fn = "deg") =>
    \A q \in {"card", "util"} :
      /\ arg.d = 0     => out[q] = Str("N")
      /\ arg.d = 1125  => out[q] = Str("N")
      /\ arg.d = 34875 => out[q] = Str("N")
      /\ arg.d = 18000 => out[q] = Str("S")

\* the entries of type ty in the list, and the first of them
OfType(ps, ty) == {k \in 1..Len(ps) : ps[k].type = ty}
FirstOfType(ps, ty) == ps[CHOOSE k \in OfType(ps, ty) : \A j \in OfType(ps, ty) : k <= j]

\* the clock time a returned tide holds
TideTime(e) == IF "time" \in DOMAIN e THEN e.time ELSE e.t

\* C18: the tide client returns the first entry of type H as high and the
\* first of type L as low, also when the day has several of a type.
\* Violated: the loop of getNoaaTides overwrites high at every H and low at
\* every L, so it returns the last of each.
C18_FirstHighFirstLow ==
  (out # NoOut /\ out.fn = "tides") =>
    \A q \in {"final", "blobs"} :
      /\ out[q].st = "resolved"
      /\ OfType(arg.ps, "H") # {} =>
           TideTime(out[q].val.high) = HM(FirstOfType(arg.ps, "H").t)
      /\ OfType(arg.ps, "L") # {} =>
           TideTime(out[q].val.low) = HM(FirstOfType(arg.ps, "L").t)

\* the points of the series closest in time to t, and the first of them
Closest(series, t) ==
  {k \in 1..Len(series) :
     \A j \in 1..Len(series) : abs(series[k].time - t) <= abs(series[j].time - t)}
FirstClosest(series, t) ==
  series[CHOOSE k \in Closest(series, t) : \A j \in Closest(series, t) : k <= j]

\* C19: wave selection returns the height of the point with the smallest
\* absolute time distance to now, before or after now, the first of the series
\* on equal distance: with 3.0 ft two hours before now and 4.0 ft one hour
\* after, 4.0 ft.  Violated: the waves block of the cjs handler keeps the last
\* point that is not after now and never a later one.
C19_NearestPoint ==
  (out # NoOut /\ out.fn = "pick" /\ arg.series # <<>>) =>
    \A q \in {"pick", "cjs"} :
      out[q].waveFt \in {Num(FirstClosest(arg.series, arg.t).waveFt.n),
                         NumStr(FirstClosest(arg.series, arg.t).waveFt.n)}

\* C20: when cosH is greater than 1 or less than -1, computeSunriseSunset
\* returns sunrise null and sunset null; in every result the two are both null
\* or both times.
C20_PolarNulls ==
  (out # NoOut /\ out.fn = "sun") =>
    /\ (arg.cosH > 100 \/ arg.cosH < -100) => out.val = NoSun
    /\ \/ out.val = NoSun
       \/ out.val.sunrise.tag = "hm" /\ out.val.sunset.tag = "hm"

\* computeSunriseSunset has answered for a cosine below -1
C20_Witness ==
  out # NoOut /\ out.fn = "sun" /\ arg.cosH < -100 /\ out.val = NoSun

\* the step in which a call has fetched from a healthy Stormglass and returns
RefreshDone == obs'.refreshed /\ ~obs.refreshed

\* the step in which a call issues a Stormglass fetch: the handler of the
\* final revision as it is called, the others after reading their cache
IssuesFetch ==
  /\ obs'.fetched
  /\ ~obs.fetched \/ (phase # "running" /\ phase' = "running")

\* C21: after a call has refreshed the forecast successfully, the cache slot
\* holds what was fetched with the time of the fetch, and a call that follows
\* before the clock moves is served without another upstream fetch.
\* Violated: getStormglassForecast of the tsv revision returns the fetched
\* forecast without writing stormglass.json, and the final revision fetches
\* on every call, so the following call fetches again.
C21_RefreshedCacheIsFresh ==
  [][/\ (RefreshDone /\ variant \in {"blobs", "pdf"}) =>
          /\ blob' # NoEntry
          /\ blob'.timestamp \in obs.callAt..now
          /\ blob'.waves = fetchStormglass("ok", forecast, blob'.timestamp)
     /\ IssuesFetch => ~obs.refreshed]_vars

\* the entry call c hands to store.setJSON
EntryOf(c) == [timestamp |-> calls[c].timestamp, waves |-> calls[c].waves]

\* the whole entries there are: the one stored before the calls (or none) and
\* the one of each call whose write succeeded
WholeEntries == {arg.stored} \cup {EntryOf(c) : c \in {d \in Callers : calls[d].wrote}}

\* C22: when two invocations run getWavesCached at once, the slot always
\* holds one whole entry, the one stored before or the one of a call that
\* wrote; every read is answered such a whole entry; and a write leaves the
\* slot holding the writer's entry whatever it held (last writer wins).
C22_WholeEntryLastWriterWins ==
  /\ [](/\ blob \in WholeEntries
        /\ \A c \in Callers : calls[c].cached \in WholeEntries \cup {Undefined})
  /\ [][\A c \in Callers :
          (calls'[c].wrote /\ ~calls[c].wrote) =>
            (blob' = [timestamp |-> calls[c].timestamp, waves |-> calls[c].waves])]_vars

\* both calls found the slot stale, fetched different heights at different
\* hours and wrote; the slot holds the entry of call 1, who wrote last, and
\* differs from call 2's in both fields
C22_Witness ==
  /\ \A c \in Callers : calls[c].pc = "done" /\ calls[c].wrote
  /\ arg.stored # NoEntry
  /\ \A c \in Callers : calls[c].cached = arg.stored
  /\ calls[1].timestamp < calls[2].timestamp
  /\ calls[1].waves # calls[2].waves
  /\ blob = EntryOf(1)

\* the points of the forecast that have a height, and the nearest to t of them
Having(hours) == {k \in 1..Len(hours) : IsNum(hours[k].sg)}
NearestHaving(hours, t) ==
  {k \in Having(hours) :
     \A j \in Having(hours) : abs(hours[k].time - t) <= abs(hours[j].time - t)}

\* C23: wave selection skips the points without a height: it gives the height
\* of a nearest point among those that have one, and null exactly when the
\* series is empty or no point has a height.  Violated: fetchStormglass of
\* the blobs and pdf revisions takes the nearest point whether or not it has
\* a height, and gives null when that point has none.
C23_SkipsNullHeights ==
  (out # NoOut /\ out.fn = "skip") =>
    \A q \in {"pick", "closest"} :
      IF Having(arg.hours) = {} THEN out[q].waveFt = Null
      ELSE \E k \in NearestHaving(arg.hours, arg.t) :
             out[q].waveFt = Num(mToFt(arg.hours[k].sg.n))

\* some element of ids carries an alert class of cs
Alerted(dom, ids, cs) == \E id \in ids : dom[id] \cap cs # {}

\* a reading that is present at one of the two stations and satisfies the test
PresentCold(data, field) ==
  \E st \in {"gulf", "bay"} : IsNum(data[st][field]) /\ data[st][field].n < ColdBelow
PresentWindy(data) ==
  \E st \in {"gulf", "bay"} : \E field \in {"windKts", "gustKts"} :
    IsNum(data[st][field]) /\ data[st][field].n >= WindyFrom

\* C24: applyAlertLogic adds an alert class only on the strength of readings
\* that are present: the water elements are alerted only when a present water
\* temperature is below 60, the air elements only when a present air
\* temperature is (red: and a present water temperature too), the wind
\* elements only when a present wind speed or gust is at least 25.
\* Violated: null < 60 is true in JavaScript, so a station without a water or
\* air temperature turns the elements red or yellow.
C24_NullNeverAlerts ==
  (out # NoOut /\ out.fn = "alerts") =>
    /\ Alerted(out.dom, WaterIds, AlertClasses) => PresentCold(arg.data, "waterF")
    /\ Alerted(out.dom, AirIds, AlertClasses) => PresentCold(arg.data, "airF")
    /\ Alerted(out.dom, AirIds, {"alert-red"}) => PresentCold(arg.data, "waterF")
    /\ Alerted(out.dom, WindIds, AlertClasses) => PresentWindy(arg.data)

====
